---- MODULE Spec2Model ----
(***************************************************************************)
(* Core2XY kinematics (klippy/chelper/kin_core2xy.c): the stepper          *)
(* kinematics objects core2xy_stepper_alloc builds and the calc_position   *)
(* callbacks the step solver calls on them.                                *)
(*                                                                         *)
(* Values of type double are modelled by a binary floating-point format    *)
(* with a MantBits-bit significand and round-to-nearest-even (the format   *)
(* of a C double, with 53 replaced by MantBits); every representable value *)
(* of the model is an integer.                                             *)
(***************************************************************************)
EXTENDS Integers, Sequences, FiniteSets, TLC

\* ------------------------------------------------------------------ bounds
\* Significand width of the modelled double.
MantBits == 3

\* ------------------------------------------------------- double arithmetic
Abs(v) == IF v < 0 THEN -v ELSE v

RECURSIVE Pow2(_)
Pow2(n) == IF n = 0 THEN 1 ELSE 2 * Pow2(n - 1)

\* Unit in the last place of the binade that holds the magnitude a.
RECURSIVE Ulp(_)
Ulp(a) == IF a < Pow2(MantBits) THEN 1 ELSE 2 * Ulp(a \div 2)

\* Round a real (here: integer) result to the nearest representable value,
\* ties to the even significand.
Round(v) ==
    LET a  == Abs(v)
        u  == Ulp(a)
        lo == (a \div u) * u
        hi == lo + u
        r  == a - lo
        n  == IF 2 * r < u THEN lo
              ELSE IF 2 * r > u THEN hi
              ELSE IF (lo \div u) % 2 = 0 THEN lo ELSE hi
    IN  IF v < 0 THEN -n ELSE n

DAdd(a, b) == Round(a + b)
DSub(a, b) == Round(a - b)
DMul(a, b) == Round(a * b)
DNeg(a)    == -a

\* ---------------------------------------------------------------- inputs
\* The char passed as `type`: the five codes the if-chain tests, and two
\* codes it does not test.
Types   == {"+", "-", "P", "C", "M", "y", "X"}
\* The doubles passed as `offset`.
Offsets == {0, 2, 5}
\* The steppers the configuration builds kinematics for, one alloc each.
Steppers == {"stepper_a", "stepper_b"}
\* The threads that call calc_position_cb.
Solvers == {"s1", "s2"}
\* The move times the solvers ask for.
Times   == {0, 1}
MoveIds == {1, 2}
\* What a call through a null function pointer may hand back if it returns.
AnyDouble == {0, 1}

NULL  == 0
NoCb  == "null"

VARIABLES
    heap,     \* address -> struct dual_carriage [cb, offset]
    ctor,     \* address -> the alloc call that built it [type, offset, made]
    rets,     \* the values core2xy_stepper_alloc returned, in call order
    trapq,    \* move id -> struct move
    callers,  \* solver -> its last calc_position call and result
    crashed,  \* "no", or the fault that killed the process
    wrote_null \* a store through a null pointer was executed

vars == <<heap, ctor, rets, trapq, callers, crashed, wrote_null>>

\* --------------------------------------------------------------- trapq.h
\* struct coord move_get_coord(struct move *m, double move_time)
move_get_coord(m, move_time) ==
    [x |-> DAdd(m.start_pos.x, DMul(m.axes_r.x, move_time)),
     y |-> DAdd(m.start_pos.y, DMul(m.axes_r.y, move_time))]

InitMoves ==
    [i \in MoveIds |->
        IF i = 1 THEN [start_pos |-> [x |-> 4, y |-> 1], axes_r |-> [x |-> -2, y |-> 2]]
                 ELSE [start_pos |-> [x |-> 3, y |-> 1], axes_r |-> [x |-> 0, y |-> 3]]]

\* ------------------------------------------------- calc_position callbacks
\* Each callback yields its return value and what it leaves in *sk and *m.
\* Variant: the plus belt computed with the minus belt's sign.
core2xy_stepper_plus_calc_position_sub(dc, m, move_time) ==
    LET c == move_get_coord(m, move_time)
    IN  [ret |-> DSub(c.x, c.y), dc |-> dc, m |-> m]

core2xy_stepper_plus_calc_position(dc, m, move_time) ==
    LET c == move_get_coord(m, move_time)
    IN  [ret |-> DAdd(c.x, c.y), dc |-> dc, m |-> m]

\* Variant: the callback stores the coordinate it read back into the move.
core2xy_stepper_minus_calc_position_adv(dc, m, move_time) ==
    LET c == move_get_coord(m, move_time)
    IN  [ret |-> DSub(c.x, c.y), dc |-> dc, m |-> [m EXCEPT !.start_pos = c]]

core2xy_stepper_minus_calc_position(dc, m, move_time) ==
    LET c == move_get_coord(m, move_time)
    IN  [ret |-> DSub(c.x, c.y), dc |-> dc, m |-> m]

\* Variant: the parked carriage adds the offset as copy and mirror do.
core2xy_stepper_dc_park_calc_position_off(dc, m, move_time) ==
    LET c == move_get_coord(m, move_time)
    IN  [ret |-> DAdd(c.y, dc.offset), dc |-> dc, m |-> m]

core2xy_stepper_dc_park_calc_position(dc, m, move_time) ==
    LET c == move_get_coord(m, move_time)
    IN  [ret |-> c.y, dc |-> dc, m |-> m]

\* Variant: the callback keeps its result in dc->offset.
core2xy_stepper_dc_copy_calc_position_store(dc, m, move_time) ==
    LET c == move_get_coord(m, move_time)
        p == DAdd(DAdd(c.x, c.y), dc.offset)
    IN  [ret |-> p, dc |-> [dc EXCEPT !.offset = p], m |-> m]

\* Variant: the offset is left out of the sum.
core2xy_stepper_dc_copy_calc_position_nooff(dc, m, move_time) ==
    LET c == move_get_coord(m, move_time)
    IN  [ret |-> DAdd(c.x, c.y), dc |-> dc, m |-> m]

core2xy_stepper_dc_copy_calc_position(dc, m, move_time) ==
    LET c == move_get_coord(m, move_time)
    IN  [ret |-> DAdd(DAdd(c.x, c.y), dc.offset), dc |-> dc, m |-> m]

\* Variant: x enters the mirror sum unnegated.
core2xy_stepper_dc_mirror_calc_position_nosign(dc, m, move_time) ==
    LET c == move_get_coord(m, move_time)
    IN  [ret |-> DAdd(DAdd(c.x, c.y), dc.offset), dc |-> dc, m |-> m]

core2xy_stepper_dc_mirror_calc_position(dc, m, move_time) ==
    LET c == move_get_coord(m, move_time)
    IN  [ret |-> DAdd(DAdd(DNeg(c.x), c.y), dc.offset), dc |-> dc, m |-> m]

\* The indirect call sk->calc_position_cb(sk, m, move_time), cb not null.
calc_position_cb(cb, dc, m, move_time) ==
    CASE cb = "plus"      -> core2xy_stepper_plus_calc_position(dc, m, move_time)
      [] cb = "minus"     -> core2xy_stepper_minus_calc_position(dc, m, move_time)
      [] cb = "dc_park"   -> core2xy_stepper_dc_park_calc_position(dc, m, move_time)
      [] cb = "dc_copy"   -> core2xy_stepper_dc_copy_calc_position(dc, m, move_time)
      [] cb = "dc_mirror" -> core2xy_stepper_dc_mirror_calc_position(dc, m, move_time)

\* ----------------------------------------------------- core2xy_stepper_alloc
\* Memory with the struct v stored at address p.
Store(mem, p, v) ==
    [i \in 1 .. (IF p > Len(mem) THEN p ELSE Len(mem)) |->
        IF i = p THEN v ELSE mem[i]]

\* Variant: the if-chain has a branch for 'y' that selects the y-only callback.
core2xy_stepper_alloc_y(type, offset, dc, mem) ==
    LET zeroed == [cb |-> NoCb, offset |-> 0]
        withoff == [zeroed EXCEPT !.offset = offset]
        cb == IF type = "+" THEN "plus"
              ELSE IF type = "-" THEN "minus"
              ELSE IF type \in {"P", "y"} THEN "dc_park"
              ELSE IF type = "C" THEN "dc_copy"
              ELSE IF type = "M" THEN "dc_mirror"
              ELSE withoff.cb
    IN  [mem |-> Store(mem, dc, [withoff EXCEPT !.cb = cb]), ret |-> dc]

\* Variant: the instance lives in one static struct instead of malloc'ed storage.
core2xy_stepper_alloc_static(type, offset, dc, mem) ==
    LET zeroed == [cb |-> NoCb, offset |-> 0]
        withoff == [zeroed EXCEPT !.offset = offset]
        cb == IF type = "+" THEN "plus"
              ELSE IF type = "-" THEN "minus"
              ELSE IF type = "P" THEN "dc_park"
              ELSE IF type = "C" THEN "dc_copy"
              ELSE IF type = "M" THEN "dc_mirror"
              ELSE withoff.cb
    IN  [mem |-> Store(mem, 1, [withoff EXCEPT !.cb = cb]), ret |-> 1]

\* The body of core2xy_stepper_alloc after malloc returned dc, dc not null:
\* the memory it leaves and the pointer it returns.
core2xy_stepper_alloc(type, offset, dc, mem) ==
    LET zeroed == [cb |-> NoCb, offset |-> 0]
        withoff == [zeroed EXCEPT !.offset = offset]
        cb == IF type = "+" THEN "plus"
              ELSE IF type = "-" THEN "minus"
              ELSE IF type = "P" THEN "dc_park"
              ELSE IF type = "C" THEN "dc_copy"
              ELSE IF type = "M" THEN "dc_mirror"
              ELSE withoff.cb
    IN  [mem |-> Store(mem, dc, [withoff EXCEPT !.cb = cb]), ret |-> dc]

\* malloc hands out storage no live object occupies.
FreshAddr == Len(heap) + 1

Init ==
    /\ heap = <<>>
    /\ ctor = <<>>
    /\ rets = <<>>
    /\ trapq = InitMoves
    /\ callers = [s \in Solvers |-> [pc |-> "idle", sk |-> NULL, m |-> 1, time |-> 0,
                                     fn |-> NoCb, ret |-> 0]]
    /\ crashed = "no"
    /\ wrote_null = FALSE

\* core2xy_stepper_alloc(type, offset), malloc succeeding.
Alloc(type, offset) ==
    /\ crashed = "no"
    /\ Len(rets) < Cardinality(Steppers)
    /\ LET r == core2xy_stepper_alloc(type, offset, FreshAddr, heap)
       IN  /\ heap' = r.mem
           /\ rets' = Append(rets, r.ret)
           /\ ctor' = Store(ctor, r.ret,
                            [type |-> type, offset |-> offset, made |-> r.mem[r.ret]])
    /\ UNCHANGED <<trapq, callers, crashed, wrote_null>>

\* core2xy_stepper_alloc(type, offset), malloc returning NULL: memset and the
\* stores go through the null pointer.  The process is killed, or the stores
\* land at address 0 and &dc->sk, which is NULL, is returned.
AllocNoMem(type, offset) ==
    /\ crashed = "no"
    /\ Len(rets) < Cardinality(Steppers)
    /\ wrote_null' = TRUE
    /\ \/ /\ crashed' = "memset_null"
          /\ UNCHANGED rets
       \/ /\ rets' = Append(rets, NULL)
          /\ UNCHANGED crashed
    /\ UNCHANGED <<heap, ctor, trapq, callers>>

\* A solver calls sk->calc_position_cb(sk, m, move_time) on a built instance.
PositionAt(s, sk, mi, move_time) ==
    /\ crashed = "no"
    /\ sk \in DOMAIN heap
    /\ heap[sk].cb # NoCb
    /\ LET r == calc_position_cb(heap[sk].cb, heap[sk], trapq[mi], move_time)
       IN  /\ callers' = [callers EXCEPT ![s] =
                            [pc |-> "returned", sk |-> sk, m |-> mi, time |-> move_time,
                             fn |-> heap[sk].cb, ret |-> r.ret]]
           /\ heap' = [heap EXCEPT ![sk] = r.dc]
           /\ trapq' = [trapq EXCEPT ![mi] = r.m]
    /\ UNCHANGED <<ctor, rets, crashed, wrote_null>>

\* The same call on an instance whose calc_position_cb is null: a call through
\* a null function pointer.  The process is killed, or the call comes back
\* with an arbitrary double.
PositionAtNullCb(s, sk, mi, move_time) ==
    /\ crashed = "no"
    /\ sk \in DOMAIN heap
    /\ heap[sk].cb = NoCb
    /\ \/ /\ crashed' = "call_null"
          /\ UNCHANGED callers
       \/ /\ \E g \in AnyDouble :
                callers' = [callers EXCEPT ![s] =
                            [pc |-> "returned", sk |-> sk, m |-> mi, time |-> move_time,
                             fn |-> NoCb, ret |-> g]]
          /\ UNCHANGED crashed
    /\ UNCHANGED <<heap, ctor, rets, trapq, wrote_null>>

Next ==
    \/ \E type \in Types, offset \in Offsets : Alloc(type, offset)
    \/ \E type \in Types, offset \in Offsets : AllocNoMem(type, offset)
    \/ \E s \in Solvers, sk \in DOMAIN heap, mi \in MoveIds, t \in Times :
          PositionAt(s, sk, mi, t)
    \/ \E s \in Solvers, sk \in DOMAIN heap, mi \in MoveIds, t \in Times :
          PositionAtNullCb(s, sk, mi, t)

Spec == Init /\ [][Next]_vars

\* ------------------------------------------------------------- properties
Returned(s)  == callers[s].pc = "returned"
\* The coordinate the move queue returned for the call solver s made.
Coord(s)     == move_get_coord(trapq[callers[s].m], callers[s].time)
\* The code and the offset with which the instance s called was constructed.
TypeOf(s)    == ctor[callers[s].sk].type
OffsetOf(s)  == ctor[callers[s].sk].offset
SameQuery(s, t) == callers[s].m = callers[t].m /\ callers[s].time = callers[t].time
At(s, x, y)  == Coord(s).x = x /\ Coord(s).y = y
\* The variant codes the specification's mapping table lists.
TableCodes   == {"+", "-", "y", "P", "C", "M"}

\* C1: on an instance constructed with '+' the call returns x + y, with '-'
\* x - y, with 'P' y, for every coordinate (x, y) the move queue returned and
\* every offset passed to the constructor (sums are sums of doubles).
C1_PlusMinusPark ==
    \A s \in Solvers : Returned(s) =>
        /\ TypeOf(s) = "+" => callers[s].ret = DAdd(Coord(s).x, Coord(s).y)
        /\ TypeOf(s) = "-" => callers[s].ret = DSub(Coord(s).x, Coord(s).y)
        /\ TypeOf(s) = "P" => callers[s].ret = Coord(s).y

\* A '+' instance and a 'P' instance, both built with a non-zero offset, were
\* queried at (4, 1) and returned 5 and 1.
C1_Witness ==
    \E s, t \in Solvers :
        /\ Returned(s) /\ TypeOf(s) = "+" /\ OffsetOf(s) = 5 /\ At(s, 4, 1)
        /\ callers[s].ret = 5
        /\ Returned(t) /\ TypeOf(t) = "P" /\ OffsetOf(t) = 2 /\ At(t, 4, 1)
        /\ callers[t].ret = 1

\* C2: on an instance constructed with 'C' and an offset the call returns
\* x + y + offset, with 'M' -x + y + offset (sums of doubles, left to right).
C2_CopyMirror ==
    \A s \in Solvers : Returned(s) =>
        /\ TypeOf(s) = "C" =>
              callers[s].ret = DAdd(DAdd(Coord(s).x, Coord(s).y), OffsetOf(s))
        /\ TypeOf(s) = "M" =>
              callers[s].ret = DAdd(DAdd(DNeg(Coord(s).x), Coord(s).y), OffsetOf(s))

\* Copy and mirror, offset 2, queried at (4, 1): 7 and -1.
C2_Witness ==
    \E s, t \in Solvers :
        /\ Returned(s) /\ TypeOf(s) = "C" /\ OffsetOf(s) = 2 /\ At(s, 4, 1)
        /\ callers[s].ret = 7
        /\ Returned(t) /\ TypeOf(t) = "M" /\ OffsetOf(t) = 2 /\ At(t, 4, 1)
        /\ callers[t].ret = -1

C4_UnsupportedRejected ==
    \A k \in DOMAIN rets :
        rets[k] # NULL => ctor[rets[k]].type \in TableCodes

\* C5: mapping and offset of every instance stay what the constructor set,
\* whatever calls the solvers have made, and every call ran the mapping the
\* constructor bound.
C5_Immutable ==
    \A i \in DOMAIN heap :
        /\ heap[i] = ctor[i].made
        /\ \A s \in Solvers : Returned(s) /\ callers[s].sk = i =>
              callers[s].fn = ctor[i].made.cb

\* Both solvers have called the same copy instance, at different times of
\* different moves.
C5_Witness ==
    \E s, t \in Solvers :
        /\ s # t /\ Returned(s) /\ Returned(t)
        /\ callers[s].sk = callers[t].sk
        /\ TypeOf(s) = "C" /\ OffsetOf(s) = 2
        /\ callers[s].m # callers[t].m /\ callers[s].time # callers[t].time

\* The sum of the coordinate a copy or mirror instance forms before it adds
\* the offset, over the reals.
Base(type, c) == IF type = "C" THEN c.x + c.y ELSE c.y - c.x
\* Neither addition of the callback rounds.
NoRounding(type, c, o) ==
    /\ Round(Base(type, c)) = Base(type, c)
    /\ Round(Base(type, c) + o) = Base(type, c) + o

\* C6 as stated: two instances of copy, or two of mirror, queried at the same
\* coordinate, return results whose difference is the difference of their
\* offsets.
C6_OffsetDelta ==
    \A s, t \in Solvers :
        ( /\ Returned(s) /\ Returned(t) /\ SameQuery(s, t)
          /\ TypeOf(s) \in {"C", "M"} /\ TypeOf(t) = TypeOf(s) )
        => callers[t].ret - callers[s].ret = OffsetOf(t) - OffsetOf(s)

\* C6 amended: the difference of the results is the difference of the offsets
\* when neither instance's additions round.
C6_OffsetDeltaExact ==
    \A s, t \in Solvers :
        ( /\ Returned(s) /\ Returned(t) /\ SameQuery(s, t)
          /\ TypeOf(s) \in {"C", "M"} /\ TypeOf(t) = TypeOf(s)
          /\ NoRounding(TypeOf(s), Coord(s), OffsetOf(s))
          /\ NoRounding(TypeOf(t), Coord(t), OffsetOf(t)) )
        => callers[t].ret - callers[s].ret = OffsetOf(t) - OffsetOf(s)

\* Two copy instances with offsets 0 and 5 were queried at (2, 3): 5 and 10.
C6_Witness ==
    \E s, t \in Solvers :
        /\ Returned(s) /\ Returned(t) /\ SameQuery(s, t) /\ At(s, 2, 3)
        /\ TypeOf(s) = "C" /\ TypeOf(t) = "C"
        /\ OffsetOf(s) = 0 /\ OffsetOf(t) = 5
        /\ callers[s].ret = 5 /\ callers[t].ret = 10

\* C7: two instances constructed with the same code among '+', '-', 'P' and
\* with different offsets return equal results at the same coordinate.
C7_OffsetUnused ==
    \A s, t \in Solvers :
        ( /\ Returned(s) /\ Returned(t) /\ SameQuery(s, t)
          /\ TypeOf(s) \in {"+", "-", "P"} /\ TypeOf(t) = TypeOf(s)
          /\ OffsetOf(s) # OffsetOf(t) )
        => callers[s].ret = callers[t].ret

\* Two park instances with offsets 0 and 5 were queried at (3, 4).
C7_Witness ==
    \E s, t \in Solvers :
        /\ Returned(s) /\ Returned(t) /\ SameQuery(s, t) /\ At(s, 3, 4)
        /\ TypeOf(s) = "P" /\ TypeOf(t) = "P"
        /\ OffsetOf(s) = 0 /\ OffsetOf(t) = 5

\* C8: a call changes neither the instances nor the moves, and after it any
\* two solvers that hold the result of the same (instance, move, time) on an
\* instance with a bound mapping hold the same result.
C8_Pure ==
    [][ callers' # callers =>
          /\ heap' = heap
          /\ trapq' = trapq
          /\ \A s, t \in Solvers :
                ( /\ callers'[s].pc = "returned" /\ callers'[t].pc = "returned"
                  /\ callers'[s].sk = callers'[t].sk
                  /\ callers'[s].m = callers'[t].m
                  /\ callers'[s].time = callers'[t].time
                  /\ callers'[s].fn # NoCb )
                => callers'[s].ret = callers'[t].ret ]_vars

\* Both solvers hold the result of the same query on the same minus instance.
C8_Witness ==
    \E s, t \in Solvers :
        /\ s # t /\ Returned(s) /\ Returned(t) /\ SameQuery(s, t)
        /\ callers[s].sk = callers[t].sk /\ TypeOf(s) = "-"
        /\ At(s, 3, 4) /\ callers[s].ret = -1 /\ callers[t].ret = -1

\* C9: the constructor stores nothing through a failed allocation and the
\* failure does not kill the process.
C9_AllocationFailure ==
    /\ ~wrote_null
    /\ crashed # "memset_null"

\* C10: a constructor call leaves every instance built before it, every move
\* and every solver as they were, and the instance it returns is none of the
\* pointers returned before.
C10_AllocFrame ==
    [][ Len(rets') > Len(rets) =>
          /\ \A i \in DOMAIN heap : i \in DOMAIN heap' /\ heap'[i] = heap[i]
          /\ trapq' = trapq
          /\ callers' = callers
          /\ rets'[Len(rets')] # NULL =>
                /\ rets'[Len(rets')] \in DOMAIN heap'
                /\ \A k \in DOMAIN rets : rets[k] # rets'[Len(rets')] ]_vars

\* Two constructor calls have returned two instances.
C10_Witness ==
    /\ Len(rets) = 2
    /\ rets[1] # NULL /\ rets[2] # NULL /\ rets[1] # rets[2]
    /\ ctor[rets[1]].type = "C" /\ ctor[rets[2]].type = "M"

====
